---------------------------- MODULE Spec2Model ----------------------------
(***************************************************************************)
(* A model of the subject trie of YoshieraHuang/trie.                      *)
(*                                                                         *)
(*   src/src/lib.rs    Trie: insert, find, remove, remove_all, exist       *)
(*   src/src/node.rs   Node: the value sets and the children of a vertex   *)
(*   src/src/token.rs  Token, Tokens::match_keys, CommonTokenParser        *)
(*   src/src/error.rs  Error::EmptyToken, Error::TokenAfterMwc             *)
(*                                                                         *)
(* A string is a sequence of one-character strings, so that splitting a    *)
(* subject on the separator is computed and not assumed.  A node of the    *)
(* tree is named by the path of fields that leads to it from the root:     *)
(* children[token] or o_node.  The trie is a function from the paths of    *)
(* the nodes that exist to the two value sets of each node.                *)
(***************************************************************************)
EXTENDS Naturals, Sequences, FiniteSets, Bags, TLC

VARIABLES root,   \* Trie.root and every node below it: path -> Node
          op,     \* the operation that ran last
          key,    \* its subject string
          value,  \* its value argument (0 when it takes none)
          ret,    \* what it returned
          nops,   \* how many operations ran
          keys,   \* the keys argument of Tokens::match_keys
          cache   \* the result cache of the cached trie (SpecCache)

vars == <<root, op, key, value, ret, nops, keys, cache>>

(***************************************************************************)
(* Bounds of the model.                                                    *)
(***************************************************************************)
MaxSegs == 2
NumValues == 2
MaxOps == 3

V == 1..NumValues

(***************************************************************************)
(* The configuration the tests construct: Trie::new('.', "*", ">").        *)
(***************************************************************************)
sc == "."
owc == <<"*">>
mwc == <<">">>

\* The segments subjects are built from: the empty one, two literals and
\* the two wildcard markers.
Segs == {<<>>, <<"a">>, <<"b">>, owc, mwc}

RECURSIVE Join(_)
Join(segs) ==
    IF Len(segs) = 1 THEN segs[1]
    ELSE segs[1] \o <<sc>> \o Join(Tail(segs))

\* Subjects of three segments: a key below a.b, the malformed subjects
\* whose leading tokens are valid, and a token after the multi wildcard
\* below a literal.
DeepSubjects ==
    { <<"a", ".", "b", ".", "a">>,
      <<"a", ".", "b", ".">>,
      <<"a", ".", ".", "b">>,
      <<"b", ".", ">", ".", "a">> }

Subjects ==
    { Join(segs) : segs \in UNION { [1..n -> Segs] : n \in 1..MaxSegs } }
        \cup DeepSubjects

(***************************************************************************)
(* src/src/node.rs                                                         *)
(***************************************************************************)
NewNode == [value_set |-> {}, m_value_set |-> {}]

RootPath == <<>>

\* children[token] of node n, and o_node of node n, as paths.
ChildPath(n, token) == Append(n, [f |-> "children", k |-> token])
ONodePath(n) == Append(n, [f |-> "o_node", k |-> <<>>])

add(t, n, v) ==
    [t |-> [t EXCEPT ![n].value_set = @ \cup {v}],
     b |-> v \notin t[n].value_set]

values(t, n) == t[n].value_set

\* Mutant of remove: reports the value but leaves it in the set.
remove_keeps(t, n, v) ==
    [t |-> t, b |-> v \in t[n].value_set]

remove(t, n, v) ==
    [t |-> [t EXCEPT ![n].value_set = @ \ {v}],
     b |-> v \in t[n].value_set]

is_empty(t, n) == t[n].value_set = {}

\* Mutant of remove_all: clears without looking whether the set was empty.
remove_all_unchecked(t, n) ==
    [t |-> [t EXCEPT ![n].value_set = {}], b |-> TRUE]

remove_all(t, n) ==
    IF is_empty(t, n)
    THEN [t |-> t, b |-> FALSE]
    ELSE [t |-> [t EXCEPT ![n].value_set = {}], b |-> TRUE]

child_nodes(t, n) ==
    { p \in DOMAIN t : Len(p) = Len(n) + 1
                       /\ SubSeq(p, 1, Len(n)) = n
                       /\ p[Len(p)].f = "children" }

\* Option<&Node>: the empty set or one path.
owc_node(t, n) == IF ONodePath(n) \in DOMAIN t THEN {ONodePath(n)} ELSE {}

owc_node_mut(t, n) ==
    [t |-> IF ONodePath(n) \in DOMAIN t THEN t ELSE t @@ (ONodePath(n) :> NewNode),
     n |-> ONodePath(n)]

mwc_add(t, n, v) ==
    [t |-> [t EXCEPT ![n].m_value_set = @ \cup {v}],
     b |-> v \notin t[n].m_value_set]

mwc_remove(t, n, v) ==
    [t |-> [t EXCEPT ![n].m_value_set = @ \ {v}],
     b |-> v \in t[n].m_value_set]

\* Mutant of mwc_values: iterates the node's own values.
mwc_values_own(t, n) == t[n].value_set

mwc_values(t, n) == t[n].m_value_set

is_mwc_empty(t, n) == t[n].m_value_set = {}

mwc_remove_all(t, n) ==
    IF is_mwc_empty(t, n)
    THEN [t |-> t, b |-> FALSE]
    ELSE [t |-> [t EXCEPT ![n].m_value_set = {}], b |-> TRUE]

get_child_node_mut_or_insert(t, n, token) ==
    [t |-> IF ChildPath(n, token) \in DOMAIN t THEN t
           ELSE t @@ (ChildPath(n, token) :> NewNode),
     n |-> ChildPath(n, token)]

get_child_node_mut(t, n, token) ==
    IF ChildPath(n, token) \in DOMAIN t THEN {ChildPath(n, token)} ELSE {}

get_child_node(t, n, token) ==
    IF ChildPath(n, token) \in DOMAIN t THEN {ChildPath(n, token)} ELSE {}

(***************************************************************************)
(* src/src/token.rs                                                        *)
(***************************************************************************)
Normal(s) == [tag |-> "Normal", s |-> s]
OneWildcard == [tag |-> "OneWildcard", s |-> <<>>]
MultiWildcard == [tag |-> "MultiWildcard", s |-> <<>>]

has_no_wildcard(tokens) ==
    \A i \in 1..Len(tokens) : tokens[i].tag = "Normal"

\* Mutant of match_keys: a shorter pattern is compared as a prefix whatever
\* its last token is.
match_keys_prefix(tokens, ks) ==
    IF Len(tokens) > Len(ks) THEN FALSE
    ELSE \A i \in 1..Len(tokens) :
            \/ (tokens[i].tag = "Normal" /\ tokens[i].s = ks[i])
            \/ tokens[i] = OneWildcard
            \/ tokens[i] = MultiWildcard

\* Mutant of match_keys: sequences of different lengths never match, the
\* trailing multi wildcard is forgotten.
match_keys_same_len(tokens, ks) ==
    IF Len(tokens) # Len(ks) THEN FALSE
    ELSE \A i \in 1..Len(tokens) :
            \/ (tokens[i].tag = "Normal" /\ tokens[i].s = ks[i])
            \/ tokens[i] = OneWildcard
            \/ tokens[i] = MultiWildcard

\* The zip of match_keys stops at the shorter of the two sequences.
match_keys(tokens, ks) ==
    IF Len(tokens) > Len(ks) THEN FALSE
    ELSE IF /\ Len(tokens) < Len(ks)
            /\ ~(Len(tokens) > 0 /\ tokens[Len(tokens)] = MultiWildcard)
    THEN FALSE
    ELSE \A i \in 1..Len(tokens) :
            \/ (tokens[i].tag = "Normal" /\ tokens[i].s = ks[i])
            \/ tokens[i] = OneWildcard
            \/ tokens[i] = MultiWildcard

\* str::split(c): the segments between the separators, in order.
RECURSIVE split(_, _)
split(s, c) ==
    IF \A i \in 1..Len(s) : s[i] # c THEN <<s>>
    ELSE LET i == CHOOSE i \in 1..Len(s) :
                      s[i] = c /\ \A j \in 1..(i - 1) : s[j] # c
         IN  <<SubSeq(s, 1, i - 1)>> \o split(SubSeq(s, i + 1, Len(s)), c)

\* The try_fold of parse_tokens from segment i on.
RECURSIVE parse_fold(_, _, _, _)
parse_fold(segs, i, vec, has_mwc) ==
    IF i > Len(segs) THEN [err |-> "None", tokens |-> vec]
    ELSE IF has_mwc THEN [err |-> "MultiWildcardNotAtEnd", tokens |-> <<>>]
    ELSE IF segs[i] = owc THEN parse_fold(segs, i + 1, Append(vec, OneWildcard), FALSE)
    ELSE IF segs[i] = mwc THEN parse_fold(segs, i + 1, Append(vec, MultiWildcard), TRUE)
    ELSE parse_fold(segs, i + 1, Append(vec, Normal(segs[i])), FALSE)

\* Mutant of parse_tokens: empty segments are dropped before the fold.
parse_tokens_skip_empty(source) ==
    parse_fold(SelectSeq(split(source, sc), LAMBDA x : x # <<>>), 1, <<>>, FALSE)

\* CommonTokenParser::new('.', "*", ">").parse_tokens(source)
parse_tokens(source) == parse_fold(split(source, sc), 1, <<>>, FALSE)

(***************************************************************************)
(* src/src/error.rs and the results of the string entry points.            *)
(***************************************************************************)
NoError == [kind |-> "None", subject |-> <<>>]
EmptyToken(k) == [kind |-> "EmptyToken", subject |-> k]
TokenAfterMwc(k) == [kind |-> "TokenAfterMwc", subject |-> k]

\* Result<T>: Err(e) or Ok of a unit, a bool or a vector of values.  The
\* vector is kept as a bag: its order is the hash sets' iteration order.
Err(e) == [err |-> e, type |-> "none", b |-> FALSE, vals |-> EmptyBag]
OkUnit == [err |-> NoError, type |-> "unit", b |-> FALSE, vals |-> EmptyBag]
OkBool(b) == [err |-> NoError, type |-> "bool", b |-> b, vals |-> EmptyBag]
OkValues(bag) == [err |-> NoError, type |-> "values", b |-> FALSE, vals |-> bag]

IsOk(r) == r.err.kind = "None"

(***************************************************************************)
(* src/src/lib.rs                                                          *)
(***************************************************************************)
tokens_from_key(k) ==
    IF Len(k) = 0
    THEN [err |-> EmptyToken(k), tokens |-> <<>>]
    ELSE [err |-> NoError, tokens |-> split(k, sc)]

check_token(token, k, hasmwc) ==
    IF Len(token) = 0 THEN EmptyToken(k)
    ELSE IF hasmwc THEN TokenAfterMwc(k)
    ELSE NoError

\* The try_fold of must_find_mut_node from token i on.  The nodes created
\* before a token is refused stay in the tree: the fold works on &mut self.
RECURSIVE must_find_fold(_, _, _, _, _, _)
must_find_fold(t, n, hasmwc, tokens, i, k) ==
    IF i > Len(tokens) THEN [err |-> NoError, t |-> t, n |-> n, hasmwc |-> hasmwc]
    ELSE LET token == tokens[i]
             e == check_token(token, k, hasmwc)
         IN  IF e # NoError THEN [err |-> e, t |-> t, n |-> n, hasmwc |-> hasmwc]
             ELSE IF token = mwc
                  THEN must_find_fold(t, n, TRUE, tokens, i + 1, k)
             ELSE IF token = owc
                  THEN LET r == owc_node_mut(t, n)
                       IN  must_find_fold(r.t, r.n, hasmwc, tokens, i + 1, k)
             ELSE LET r == get_child_node_mut_or_insert(t, n, token)
                  IN  must_find_fold(r.t, r.n, hasmwc, tokens, i + 1, k)

must_find_mut_node(t, k) ==
    LET tk == tokens_from_key(k)
    IN  IF tk.err # NoError
        THEN [err |-> tk.err, t |-> t, n |-> RootPath, hasmwc |-> FALSE]
        ELSE must_find_fold(t, RootPath, FALSE, tk.tokens, 1, k)

insert(t, k, v) ==
    LET f == must_find_mut_node(t, k)
    IN  IF f.err # NoError THEN [t |-> f.t, ret |-> Err(f.err)]
        ELSE [t |-> IF f.hasmwc THEN mwc_add(f.t, f.n, v).t ELSE add(f.t, f.n, v).t,
              ret |-> OkUnit]

\* The multi wildcard values of every node of a frontier, each set once.
RECURSIVE mwc_values_of(_, _)
mwc_values_of(t, nodes) ==
    IF nodes = {} THEN EmptyBag
    ELSE LET n == CHOOSE x \in nodes : TRUE
         IN  SetToBag(mwc_values(t, n)) (+) mwc_values_of(t, nodes \ {n})

\* The try_fold of find from token i on: nodes is the frontier (the nodes of
\* a frontier are distinct nodes of the tree, so the vector is kept as a
\* set), vals the values pushed so far.
RECURSIVE find_fold(_, _, _, _, _, _, _)
find_fold(t, nodes, vals, hasmwc, tokens, i, k) ==
    IF i > Len(tokens)
    THEN [err |-> NoError, nodes |-> nodes, vals |-> vals, hasmwc |-> hasmwc]
    ELSE LET token == tokens[i]
             e == check_token(token, k, hasmwc)
         IN  IF e # NoError
             THEN [err |-> e, nodes |-> nodes, vals |-> vals, hasmwc |-> hasmwc]
             ELSE IF nodes = {}
             THEN find_fold(t, nodes, vals, hasmwc, tokens, i + 1, k)
             ELSE LET pushed == vals (+) mwc_values_of(t, nodes)
                  IN  IF token = owc
                      THEN find_fold(t,
                             UNION { owc_node(t, n) \cup child_nodes(t, n) : n \in nodes },
                             pushed, hasmwc, tokens, i + 1, k)
                      ELSE IF token = mwc
                      THEN find_fold(t, nodes, pushed, TRUE, tokens, i + 1, k)
                      ELSE find_fold(t,
                             UNION { get_child_node(t, n, token) : n \in nodes },
                             pushed, hasmwc, tokens, i + 1, k)

\* The while loop that ends find: todo holds nodes[i..].
RECURSIVE find_collect(_, _, _, _)
find_collect(t, todo, hasmwc, vals) ==
    IF todo = {} THEN vals
    ELSE LET node == CHOOSE x \in todo : TRUE
             v1 == vals (+) SetToBag(values(t, node))
         IN  IF hasmwc
             THEN find_collect(t,
                    (todo \ {node}) \cup owc_node(t, node) \cup child_nodes(t, node),
                    hasmwc, v1 (+) SetToBag(mwc_values(t, node)))
             ELSE find_collect(t, todo \ {node}, hasmwc, v1)

find(t, k) ==
    LET tk == tokens_from_key(k)
    IN  IF tk.err # NoError THEN Err(tk.err)
        ELSE LET f == find_fold(t, {RootPath}, EmptyBag, FALSE, tk.tokens, 1, k)
             IN  IF f.err # NoError THEN Err(f.err)
                 ELSE OkValues(find_collect(t, f.nodes, f.hasmwc, f.vals))

\* The for loop of exist from token i on.  done: the loop returned b.
RECURSIVE exist_loop(_, _, _, _, _, _)
exist_loop(t, nodes, hasmwc, tokens, i, k) ==
    IF i > Len(tokens)
    THEN [err |-> NoError, done |-> FALSE, b |-> FALSE, nodes |-> nodes, hasmwc |-> hasmwc]
    ELSE LET token == tokens[i]
             e == check_token(token, k, hasmwc)
         IN  IF e # NoError
             THEN [err |-> e, done |-> TRUE, b |-> FALSE, nodes |-> nodes, hasmwc |-> hasmwc]
             ELSE IF nodes = {}
             THEN [err |-> NoError, done |-> TRUE, b |-> FALSE, nodes |-> nodes, hasmwc |-> hasmwc]
             ELSE IF \E n \in nodes : ~is_mwc_empty(t, n)
             THEN [err |-> NoError, done |-> TRUE, b |-> TRUE, nodes |-> nodes, hasmwc |-> hasmwc]
             ELSE IF token = mwc
             THEN exist_loop(t, nodes, TRUE, tokens, i + 1, k)
             ELSE IF token = owc
             THEN exist_loop(t,
                    UNION { owc_node(t, n) \cup child_nodes(t, n) : n \in nodes },
                    hasmwc, tokens, i + 1, k)
             ELSE exist_loop(t,
                    UNION { get_child_node(t, n, token) : n \in nodes },
                    hasmwc, tokens, i + 1, k)

\* The while loop that ends exist when the subject ended in the multi wildcard.
RECURSIVE exist_walk(_, _)
exist_walk(t, todo) ==
    IF todo = {} THEN FALSE
    ELSE LET node == CHOOSE x \in todo : TRUE
         IN  IF ~is_empty(t, node) \/ ~is_mwc_empty(t, node) THEN TRUE
             ELSE exist_walk(t, (todo \ {node}) \cup owc_node(t, node)
                                   \cup child_nodes(t, node))

exist(t, k) ==
    LET tk == tokens_from_key(k)
    IN  IF tk.err # NoError THEN Err(tk.err)
        ELSE LET f == exist_loop(t, {RootPath}, FALSE, tk.tokens, 1, k)
             IN  IF f.err # NoError THEN Err(f.err)
                 ELSE IF f.done THEN OkBool(f.b)
                 ELSE IF \E n \in f.nodes : ~is_empty(t, n) THEN OkBool(TRUE)
                 ELSE IF f.hasmwc THEN OkBool(exist_walk(t, f.nodes))
                 ELSE OkBool(FALSE)

\* The try_fold of find_mut_node from token i on; node is Option<&mut Node>.
RECURSIVE find_mut_fold(_, _, _, _, _, _)
find_mut_fold(t, node, hasmwc, tokens, i, k) ==
    IF i > Len(tokens) THEN [err |-> NoError, t |-> t, node |-> node, hasmwc |-> hasmwc]
    ELSE LET token == tokens[i]
             e == check_token(token, k, hasmwc)
         IN  IF e # NoError THEN [err |-> e, t |-> t, node |-> node, hasmwc |-> hasmwc]
             ELSE IF node = {} THEN find_mut_fold(t, {}, hasmwc, tokens, i + 1, k)
             ELSE LET n == CHOOSE x \in node : TRUE
                  IN  IF token = mwc
                      THEN find_mut_fold(t, {n}, TRUE, tokens, i + 1, k)
                      ELSE IF token = owc
                      THEN LET r == owc_node_mut(t, n)
                           IN  find_mut_fold(r.t, {r.n}, hasmwc, tokens, i + 1, k)
                      ELSE find_mut_fold(t, get_child_node_mut(t, n, token),
                                         hasmwc, tokens, i + 1, k)

find_mut_node(t, k) ==
    LET tk == tokens_from_key(k)
    IN  IF tk.err # NoError
        THEN [err |-> tk.err, t |-> t, node |-> {}, hasmwc |-> FALSE]
        ELSE find_mut_fold(t, {RootPath}, FALSE, tk.tokens, 1, k)

trie_remove(t, k, v) ==
    LET f == find_mut_node(t, k)
    IN  IF f.err # NoError THEN [t |-> f.t, ret |-> Err(f.err)]
        ELSE IF f.node = {} THEN [t |-> f.t, ret |-> OkBool(FALSE)]
        ELSE LET n == CHOOSE x \in f.node : TRUE
                 r == IF f.hasmwc THEN mwc_remove(f.t, n, v) ELSE remove(f.t, n, v)
             IN  [t |-> r.t, ret |-> OkBool(r.b)]

trie_remove_all(t, k) ==
    LET f == find_mut_node(t, k)
    IN  IF f.err # NoError THEN [t |-> f.t, ret |-> Err(f.err)]
        ELSE IF f.node = {} THEN [t |-> f.t, ret |-> OkBool(FALSE)]
        ELSE LET n == CHOOSE x \in f.node : TRUE
                 r == IF f.hasmwc THEN mwc_remove_all(f.t, n) ELSE remove_all(f.t, n)
             IN  [t |-> r.t, ret |-> OkBool(r.b)]

(***************************************************************************)
(* The state machine of the trie of src/src/lib.rs, which has no cache:    *)
(* cache stays empty.                                                      *)
(***************************************************************************)
\* The cache: the cached result of each cached key, and the cached keys from
\* the least to the most recently used.
EmptyCache == [entries |-> <<>>, order |-> <<>>]

Init ==
    /\ root = (RootPath :> NewNode)
    /\ op = "new"
    /\ key = <<>>
    /\ value = 0
    /\ ret = OkUnit
    /\ nops = 0
    /\ keys = <<>>
    /\ cache = EmptyCache

Insert ==
    /\ nops < MaxOps
    /\ \E k \in Subjects, v \in V :
          LET r == insert(root, k, v)
          IN  /\ root' = r.t
              /\ op' = "insert"
              /\ key' = k
              /\ value' = v
              /\ ret' = r.ret
    /\ nops' = nops + 1
    /\ UNCHANGED <<keys, cache>>

Remove ==
    /\ nops < MaxOps
    /\ \E k \in Subjects, v \in V :
          LET r == trie_remove(root, k, v)
          IN  /\ root' = r.t
              /\ op' = "remove"
              /\ key' = k
              /\ value' = v
              /\ ret' = r.ret
    /\ nops' = nops + 1
    /\ UNCHANGED <<keys, cache>>

RemoveAll ==
    /\ nops < MaxOps
    /\ \E k \in Subjects :
          LET r == trie_remove_all(root, k)
          IN  /\ root' = r.t
              /\ op' = "remove_all"
              /\ key' = k
              /\ value' = 0
              /\ ret' = r.ret
    /\ nops' = nops + 1
    /\ UNCHANGED <<keys, cache>>

\* find and exist take &self: the tree is left as it is.
Find ==
    /\ nops < MaxOps
    /\ \E k \in Subjects :
          /\ op' = "find"
          /\ key' = k
          /\ value' = 0
          /\ ret' = find(root, k)
    /\ root' = root
    /\ nops' = nops + 1
    /\ UNCHANGED <<keys, cache>>

Exist ==
    /\ nops < MaxOps
    /\ \E k \in Subjects :
          /\ op' = "exist"
          /\ key' = k
          /\ value' = 0
          /\ ret' = exist(root, k)
    /\ root' = root
    /\ nops' = nops + 1
    /\ UNCHANGED <<keys, cache>>

Next == Insert \/ Remove \/ RemoveAll \/ Find \/ Exist

Spec == Init /\ [][Next]_vars

(***************************************************************************)
(* The cached trie.  src/src/lib.rs holds no cache; the cache, its use by  *)
(* find and its invalidation by insert, remove and remove_all are modelled *)
(* from the specification (sections 3, 4.2, 4.3, 4.5), on top of the trie  *)
(* operations above and with Tokens::match_keys as the invalidation rule.  *)
(***************************************************************************)
CacheCap == 2

\* A hit makes the key the most recently used one.
cache_touch(c, k) ==
    [c EXCEPT !.order = SelectSeq(c.order, LAMBDA x : x # k) \o <<k>>]

\* Store a result; over capacity, the least recently used entry goes.
cache_put(c, k, vals) ==
    LET order == SelectSeq(c.order, LAMBDA x : x # k) \o <<k>>
        kept == IF Len(order) > CacheCap THEN Tail(order) ELSE order
    IN  [entries |-> [x \in { kept[i] : i \in 1..Len(kept) } |->
                        IF x = k THEN vals ELSE c.entries[x]],
         order |-> kept]

\* Drop every entry whose key sequence the pattern matches.
cache_invalidate(c, k) ==
    LET p == parse_tokens(k)
        stay(x) == ~(p.err = "None" /\ match_keys(p.tokens, split(x, sc)))
        order == SelectSeq(c.order, stay)
    IN  [entries |-> [x \in { order[i] : i \in 1..Len(order) } |-> c.entries[x]],
         order |-> order]

\* find: the cached list on a hit; on a miss the computed list, which is
\* stored when the subject parses to a concrete key sequence.
cached_find(t, c, k) ==
    IF k \in DOMAIN c.entries
    THEN [ret |-> OkValues(c.entries[k]), c |-> cache_touch(c, k)]
    ELSE LET r == find(t, k)
             p == parse_tokens(k)
         IN  IF IsOk(r) /\ p.err = "None" /\ has_no_wildcard(p.tokens)
             THEN [ret |-> r, c |-> cache_put(c, k, r.vals)]
             ELSE [ret |-> r, c |-> c]

CachedFind ==
    /\ nops < MaxOps
    /\ \E k \in Subjects :
          LET r == cached_find(root, cache, k)
          IN  /\ op' = "find"
              /\ key' = k
              /\ value' = 0
              /\ ret' = r.ret
              /\ cache' = r.c
    /\ root' = root
    /\ nops' = nops + 1
    /\ keys' = keys

CachedInsert ==
    /\ nops < MaxOps
    /\ \E k \in Subjects, v \in V :
          LET r == insert(root, k, v)
          IN  /\ root' = r.t
              /\ op' = "insert"
              /\ key' = k
              /\ value' = v
              /\ ret' = r.ret
              /\ cache' = IF IsOk(r.ret) THEN cache_invalidate(cache, k) ELSE cache
    /\ nops' = nops + 1
    /\ keys' = keys

CachedRemove ==
    /\ nops < MaxOps
    /\ \E k \in Subjects, v \in V :
          LET r == trie_remove(root, k, v)
          IN  /\ root' = r.t
              /\ op' = "remove"
              /\ key' = k
              /\ value' = v
              /\ ret' = r.ret
              /\ cache' = IF IsOk(r.ret) THEN cache_invalidate(cache, k) ELSE cache
    /\ nops' = nops + 1
    /\ keys' = keys

CachedRemoveAll ==
    /\ nops < MaxOps
    /\ \E k \in Subjects :
          LET r == trie_remove_all(root, k)
          IN  /\ root' = r.t
              /\ op' = "remove_all"
              /\ key' = k
              /\ value' = 0
              /\ ret' = r.ret
              /\ cache' = IF IsOk(r.ret) THEN cache_invalidate(cache, k) ELSE cache
    /\ nops' = nops + 1
    /\ keys' = keys

NextCache == CachedInsert \/ CachedRemove \/ CachedRemoveAll \/ CachedFind

SpecCache == Init /\ [][NextCache]_vars

(***************************************************************************)
(* Tokens::match_keys on its own: the pattern and the keys are drawn when  *)
(* the state machine starts, and MatchKeys applies the function to them.   *)
(***************************************************************************)
MatchSegs == MaxSegs + 1

Literals == {<<"a">>, <<"b">>}

\* The well-formed patterns of up to MatchSegs segments, as subjects.
MatchPatterns ==
    { Join(segs) :
        segs \in { x \in UNION { [1..n -> Literals \cup {owc, mwc}] : n \in 1..MatchSegs } :
                     \A i \in 1..(Len(x) - 1) : x[i] # mwc } }

\* The concrete key sequences of up to MatchSegs keys.
MatchKeySeqs == UNION { [1..n -> Literals] : n \in 1..MatchSegs }

InitMatch ==
    /\ root = (RootPath :> NewNode)
    /\ op = "new"
    /\ key \in MatchPatterns
    /\ value = 0
    /\ ret = OkUnit
    /\ nops = 0
    /\ keys \in MatchKeySeqs
    /\ cache = EmptyCache

MatchKeys ==
    /\ op = "new"
    /\ parse_tokens(key).err = "None"
    /\ op' = "match_keys"
    /\ ret' = OkBool(match_keys(parse_tokens(key).tokens, keys))
    /\ nops' = nops + 1
    /\ UNCHANGED <<root, key, value, keys, cache>>

NextMatch == MatchKeys

SpecMatch == InitMatch /\ [][NextMatch]_vars

(***************************************************************************)
(* CommonTokenParser::parse_tokens on its own: the subject is drawn when   *)
(* the state machine starts, and ParseTokens applies the parser to it; ret *)
(* then holds the parser's result, an error or the tokens.                 *)
(***************************************************************************)
MaxParseLen == 4

Chars == {"a", "b", sc, "*", ">"}

\* Every string of up to MaxParseLen characters.
ParseSubjects == UNION { [1..n -> Chars] : n \in 0..MaxParseLen }

InitParse ==
    /\ root = (RootPath :> NewNode)
    /\ op = "new"
    /\ key \in ParseSubjects
    /\ value = 0
    /\ ret = OkUnit
    /\ nops = 0
    /\ keys = <<>>
    /\ cache = EmptyCache

ParseTokens ==
    /\ op = "new"
    /\ op' = "parse_tokens"
    /\ ret' = parse_tokens(key)
    /\ nops' = nops + 1
    /\ UNCHANGED <<root, key, value, keys, cache>>

NextParse == ParseTokens

SpecParse == InitParse /\ [][NextParse]_vars

(***************************************************************************)
(* What the properties below speak of: the patterns a trie stores, and     *)
(* when a pattern matches a key.  None of this is code.                    *)
(***************************************************************************)
\* The segments of a well-formed subject: none empty, the multi wildcard
\* only last.
WellFormed(segs) ==
    /\ Len(segs) >= 1
    /\ \A i \in 1..Len(segs) : segs[i] # <<>>
    /\ \A i \in 1..(Len(segs) - 1) : segs[i] # mwc

ValidPatterns == { k \in Subjects : Len(k) > 0 /\ WellFormed(split(k, sc)) }

\* A concrete key: a well-formed subject with no wildcard segment.
ConcreteKeys ==
    { k \in ValidPatterns :
        \A i \in 1..Len(split(k, sc)) : split(k, sc)[i] \notin {owc, mwc} }

\* The pattern whose walk from the root ends at node n.
PatternOf(n) ==
    [i \in 1..Len(n) |-> IF n[i].f = "o_node" THEN owc ELSE n[i].k]

\* The (pattern, value) pairs a trie stores.
StoredPatterns(t) ==
    { [pat |-> PatternOf(e[1]), v |-> e[2]] :
        e \in { x \in (DOMAIN t) \X V : x[2] \in t[x[1]].value_set } }
    \cup
    { [pat |-> Append(PatternOf(e[1]), mwc), v |-> e[2]] :
        e \in { x \in (DOMAIN t) \X V : x[2] \in t[x[1]].m_value_set } }

\* A literal matches an identical token, the single wildcard exactly one
\* token, a trailing multi wildcard one or more remaining tokens.
RECURSIVE Matches(_, _)
Matches(pat, ks) ==
    IF pat = <<>> THEN ks = <<>>
    ELSE IF pat[1] = mwc THEN Len(pat) = 1 /\ Len(ks) >= 1
    ELSE IF ks = <<>> THEN FALSE
    ELSE /\ (pat[1] = owc \/ pat[1] = ks[1])
         /\ Matches(Tail(pat), Tail(ks))

\* The values of the stored patterns that match the key k.
MatchingValues(t, k) ==
    { sp.v : sp \in { x \in StoredPatterns(t) : Matches(x.pat, split(k, sc)) } }

\* v is carried by the pattern pat and by no other stored pattern.
CarriedOnlyBy(t, pat, v) ==
    /\ [pat |-> pat, v |-> v] \in StoredPatterns(t)
    /\ \A sp \in StoredPatterns(t) : sp.v = v => sp.pat = pat

(***************************************************************************)
(* C1.  find on a concrete key returns, as a set, exactly the values of    *)
(* the stored patterns that match the key.                                 *)
(* The code: a literal token of the key is looked up in children only; the *)
(* o_node of a frontier node is never followed, so the value of a pattern  *)
(* holding the single wildcard is missing from the result.                 *)
(***************************************************************************)
C1_FindReturnsMatching ==
    (op = "find" /\ key \in ConcreteKeys)
        => /\ IsOk(ret)
           /\ BagToSet(ret.vals) = MatchingValues(root, key)

(***************************************************************************)
(* C2.  Single-wildcard exactness: when the pattern * carries v and no     *)
(* other pattern does, find on a concrete key holds v if the key has one   *)
(* token, and does not hold v if the key has two or more.                  *)
(* The code: v is in neither, for the reason given under C1.               *)
(***************************************************************************)
C2_SingleWildcardExact ==
    \A v \in V :
        (op = "find" /\ key \in ConcreteKeys /\ CarriedOnlyBy(root, <<owc>>, v))
            => (v \in BagToSet(ret.vals) <=> Len(split(key, sc)) = 1)

\* The values find returns for k on the trie t, as a set.
FindSet(t, k) == BagToSet(find(t, k).vals)

\* No stored pattern other than pat carries v.
NoOtherCarrier(t, pat, v) ==
    \A sp \in StoredPatterns(t) : sp.v = v => sp.pat = pat

a_mwc == <<"a", ".", ">">>

(***************************************************************************)
(* C3.  Multi-wildcard containment: once a.> carries v and no other        *)
(* pattern does, find on the key a does not hold v, and find on every      *)
(* concrete key that starts with a and has a further token holds v,        *)
(* whether or not a node exists for the further tokens.  Stated of the     *)
(* find that follows insert(a.>, v) and of every find on such a trie.      *)
(***************************************************************************)
C3_Contained(v, k, r) ==
    LET ks == split(k, sc)
    IN  /\ IsOk(r)
        /\ ks = <<<<"a">>>> => v \notin BagToSet(r.vals)
        /\ (Len(ks) >= 2 /\ ks[1] = <<"a">>) => v \in BagToSet(r.vals)

C3_MultiWildcardContainment ==
    [][ \A v \in V :
          /\ ( /\ op = "insert" /\ key = a_mwc /\ value = v
               /\ NoOtherCarrier(root, <<<<"a">>, mwc>>, v)
               /\ op' = "find" /\ key' \in ConcreteKeys )
                => C3_Contained(v, key', ret')
          /\ ( /\ op' = "find" /\ key' \in ConcreteKeys
               /\ CarriedOnlyBy(root', <<<<"a">>, mwc>>, v) )
                => C3_Contained(v, key', ret') ]_vars

\* a.> alone carries 1, no node a.b exists, and find(a.b.a) returned 1.
C3_Witness ==
    /\ op = "find"
    /\ key = <<"a", ".", "b", ".", "a">>
    /\ CarriedOnlyBy(root, <<<<"a">>, mwc>>, 1)
    /\ ChildPath(ChildPath(RootPath, <<"a">>), <<"b">>) \notin DOMAIN root
    /\ 1 \in BagToSet(ret.vals)

(***************************************************************************)
(* C4.  For a wildcard-free pattern p: after insert(p, v), find(p) holds   *)
(* v; and insert(p, v) on a trie that already stores (p, v) leaves the     *)
(* trie and every find result as they were and returns false.              *)
(* The code: insert returns Ok(()) and drops the bool of Node::add.        *)
(***************************************************************************)
C4_InsertFindIdempotent ==
    [][ (op' = "insert" /\ key' \in ConcreteKeys)
          => /\ value' \in FindSet(root', key')
             /\ [pat |-> split(key', sc), v |-> value'] \in StoredPatterns(root)
                  => /\ root' = root
                     /\ \A k \in Subjects : find(root', k) = find(root, k)
                     /\ ret' = OkBool(FALSE) ]_vars

(***************************************************************************)
(* C5.  For a wildcard-free pattern p: remove(p, v), when p stores v (the  *)
(* insert(p, v) may be the step before), returns true; find(p) then does   *)
(* not hold v unless another stored pattern that matches p carries v; and  *)
(* the other values stored under p stay in find(p).                        *)
(***************************************************************************)
C5_RemoveAfterInsert ==
    [][ ( /\ op' = "remove" /\ key' \in ConcreteKeys
          /\ \/ [pat |-> split(key', sc), v |-> value'] \in StoredPatterns(root)
             \/ (op = "insert" /\ key = key' /\ value = value') )
          => /\ ret' = OkBool(TRUE)
             /\ (\A sp \in StoredPatterns(root') :
                    ~( /\ sp.pat # split(key', sc)
                       /\ sp.v = value'
                       /\ Matches(sp.pat, split(key', sc)) ))
                  => value' \notin FindSet(root', key')
             /\ \A w \in V \ {value'} :
                    [pat |-> split(key', sc), v |-> w] \in StoredPatterns(root)
                      => w \in FindSet(root', key') ]_vars

\* remove(a, 1) returned true on a trie that stored 1 and 2 under a, and
\* find(a) is now {2}.
C5_Witness ==
    /\ op = "remove" /\ key = <<"a">> /\ value = 1
    /\ ret = OkBool(TRUE)
    /\ FindSet(root, <<"a">>) = {2}

(***************************************************************************)
(* C6.  remove(p, v) of a pair that is not stored returns Ok(false) and    *)
(* leaves the whole trie as it was: no value set changes, no node is made. *)
(* The code: find_mut_node walks a single wildcard with owc_node_mut,      *)
(* which makes the o_node when there is none.                              *)
(***************************************************************************)
C6_RemoveAbsentNoEffect ==
    [][ ( /\ op' = "remove" /\ key' \in ValidPatterns
          /\ [pat |-> split(key', sc), v |-> value'] \notin StoredPatterns(root) )
          => /\ ret' = OkBool(FALSE)
             /\ root' = root ]_vars

\* The node a well-formed pattern addresses, and which of its two sets.
NodeOf(pat) ==
    [i \in 1..Len(pat) |->
        IF pat[i] = owc THEN [f |-> "o_node", k |-> <<>>]
        ELSE [f |-> "children", k |-> pat[i]]]

AddressOf(pat) ==
    IF pat[Len(pat)] = mwc
    THEN [n |-> NodeOf(SubSeq(pat, 1, Len(pat) - 1)), f |-> "m_value_set"]
    ELSE [n |-> NodeOf(pat), f |-> "value_set"]

\* Every value of every value set of a trie, with the set it is in.
Entries(t) ==
    { <<x[1], "value_set", x[2]>> :
        x \in { y \in (DOMAIN t) \X V : y[2] \in t[y[1]].value_set } }
    \cup
    { <<x[1], "m_value_set", x[2]>> :
        x \in { y \in (DOMAIN t) \X V : y[2] \in t[y[1]].m_value_set } }

(***************************************************************************)
(* C7.  remove_all(p) empties the one value set p addresses (value_set of  *)
(* the node p ends at, or m_value_set of the node before a trailing multi  *)
(* wildcard), leaves the values of every other set as they were, and       *)
(* returns true exactly when the addressed set existed and held a value.   *)
(***************************************************************************)
C7_RemoveAllExactlyOneSet ==
    [][ (op' = "remove_all" /\ key' \in ValidPatterns)
          => LET ad == AddressOf(split(key', sc))
                 before == { e \in Entries(root) : e[1] = ad.n /\ e[2] = ad.f }
             IN  /\ Entries(root') = Entries(root) \ before
                 /\ ret' = OkBool(before # {}) ]_vars

\* remove_all(a) returned true, a is empty, and a.b kept its value.
C7_Witness ==
    /\ op = "remove_all" /\ key = <<"a">>
    /\ ret = OkBool(TRUE)
    /\ NodeOf(<<<<"a">>, <<"b">>>>) \in DOMAIN root
    /\ root[NodeOf(<<<<"a">>>>)].value_set = {}
    /\ root[NodeOf(<<<<"a">>, <<"b">>>>)].value_set # {}

(***************************************************************************)
(* C8.  A string operation that returns a parse error has no partial       *)
(* effect: the value sets and the set of nodes are as before the call.     *)
(* The code: must_find_mut_node makes the nodes of the leading tokens      *)
(* before it meets the token it refuses, and find_mut_node makes an o_node *)
(* the same way.                                                           *)
(***************************************************************************)
C8_ParseErrorNoEffect ==
    [][ (op' \in {"insert", "find", "remove", "remove_all", "exist"} /\ ~IsOk(ret'))
          => root' = root ]_vars

\* The tries one insert of a well-formed pattern builds, and the new trie.
OneInsertTries ==
    { (RootPath :> NewNode) }
        \cup { insert((RootPath :> NewNode), k, v).t : k \in ValidPatterns, v \in V }

(***************************************************************************)
(* C10.  match_keys(pattern, keys), for a well-formed pattern and concrete *)
(* keys, is true exactly when the pattern matches the keys: false when the *)
(* pattern is longer; false when it is shorter and does not end in the     *)
(* multi wildcard; and it is true whenever insert, remove or remove_all of *)
(* the pattern changes what find returns for the keys.                     *)
(***************************************************************************)
C10_MatchKeysExact ==
    op = "match_keys"
      => LET pat == split(key, sc)
             k == Join(keys)
         IN  /\ ret.b <=> Matches(pat, keys)
             /\ Len(pat) > Len(keys) => ~ret.b
             /\ (Len(pat) < Len(keys) /\ pat[Len(pat)] # mwc) => ~ret.b
             /\ \A t \in OneInsertTries, v \in V :
                   ( \/ find(insert(t, key, v).t, k) # find(t, k)
                     \/ find(trie_remove(t, key, v).t, k) # find(t, k)
                     \/ find(trie_remove_all(t, key).t, k) # find(t, k) )
                     => ret.b

\* a.> was matched against the longer key sequence a, b, a.
C10_Witness ==
    /\ op = "match_keys"
    /\ key = a_mwc
    /\ keys = <<<<"a">>, <<"b">>, <<"a">>>>
    /\ ret = OkBool(TRUE)

(***************************************************************************)
(* C9.  Cache coherence: after any sequence of insert, remove, remove_all  *)
(* and find, every cached result is the result a computation on the        *)
(* current trie gives for its key, and the result find returned is the     *)
(* result of that computation.                                             *)
(***************************************************************************)
C9_CacheCoherent ==
    /\ \A k \in DOMAIN cache.entries : cache.entries[k] = find(root, k).vals
    /\ op = "find" => ret = find(root, key)

\* Three operations, one of them insert(>, 1), ended in find(b), whose
\* result is cached and holds 1.
C9_Witness ==
    /\ op = "find" /\ key = <<"b">> /\ nops = 3
    /\ cache.order = <<<<"b">>>>
    /\ cache.entries[<<"b">>] = SetToBag({1})
    /\ Entries(root) = { <<RootPath, "m_value_set", 1>> }
    /\ ret = OkValues(SetToBag({1}))

\* The segments of a string by position: segment j lies between the
\* (j-1)th and the jth separator of the string.
SepsOf(s) == { i \in 1..Len(s) : s[i] = sc }

SegmentsOf(s) ==
    LET seps == SepsOf(s)
        nth(j) == IF j = 0 THEN 0
                  ELSE IF j > Cardinality(seps) THEN Len(s) + 1
                  ELSE CHOOSE i \in seps : Cardinality({ x \in seps : x < i }) = j - 1
    IN  [j \in 1..(Cardinality(seps) + 1) |-> SubSeq(s, nth(j - 1) + 1, nth(j) - 1)]

\* The token a segment stands for.
TokenOf(seg) ==
    IF seg = owc THEN OneWildcard
    ELSE IF seg = mwc THEN MultiWildcard
    ELSE Normal(seg)

(***************************************************************************)
(* C11.  parse_tokens splits by position on the separator.  It fails with  *)
(* MultiWildcardNotAtEnd exactly when some segment follows a segment equal *)
(* to the multi wildcard marker; otherwise it gives one token per segment, *)
(* in order: the single marker is OneWildcard, the multi marker is         *)
(* MultiWildcard, anything else, the empty segment too, is Normal.  So the *)
(* empty subject gives [Normal("")], and a result holds the multi wildcard *)
(* at most once and only last.                                             *)
(***************************************************************************)
C11_ParseTokensPositional ==
    op = "parse_tokens"
      => LET segs == SegmentsOf(key)
             follows == \E i \in 1..(Len(segs) - 1) : segs[i] = mwc
         IN  /\ ret.err \in {"None", "MultiWildcardNotAtEnd"}
             /\ ret.err = "MultiWildcardNotAtEnd" <=> follows
             /\ ret.err = "None"
                  => /\ ret.tokens = [i \in 1..Len(segs) |-> TokenOf(segs[i])]
                     /\ \A i \in 1..(Len(ret.tokens) - 1) :
                           ret.tokens[i] # MultiWildcard
             /\ key = <<>> => ret = [err |-> "None", tokens |-> <<Normal(<<>>)>>]

\* a..> parsed to a literal, the empty literal and the multi wildcard.
C11_Witness ==
    /\ op = "parse_tokens"
    /\ key = <<"a", ".", ".", ">">>
    /\ ret = [err |-> "None",
              tokens |-> <<Normal(<<"a">>), Normal(<<>>), MultiWildcard>>]

\* The error a subject deserves by its first offending segment from the
\* left: an empty segment, or a non-empty segment after the multi wildcard.
RECURSIVE FirstOffence(_, _, _, _)
FirstOffence(k, segs, i, seenmwc) ==
    IF i > Len(segs) THEN NoError
    ELSE IF segs[i] = <<>> THEN EmptyToken(k)
    ELSE IF seenmwc THEN TokenAfterMwc(k)
    ELSE FirstOffence(k, segs, i + 1, segs[i] = mwc)

ExpectedError(k) == FirstOffence(k, SegmentsOf(k), 1, FALSE)

(***************************************************************************)
(* C12.  For insert, find, remove and remove_all the outcome for a subject *)
(* is decided by its first offending segment from the left: an empty       *)
(* subject or segment gives EmptyToken(subject), a non-empty segment after *)
(* the multi wildcard gives TokenAfterMwc(subject), and a subject with no  *)
(* offending segment gives no error, whatever the trie holds.              *)
(***************************************************************************)
C12_ErrorByFirstOffence ==
    op \in {"insert", "find", "remove", "remove_all"}
      => ret.err = ExpectedError(key)

\* The trie holds only literal patterns: no stored pattern has a wildcard.
LiteralOnly(t) ==
    \A sp \in StoredPatterns(t) :
        \A i \in 1..Len(sp.pat) : sp.pat[i] \notin {owc, mwc}

\* A well-formed query holding the single wildcard or a trailing multi
\* wildcard.
WildcardQueries == ValidPatterns \ ConcreteKeys

\* The stored (pattern, value) pairs whose pattern the query q matches.
MatchedBy(t, q) ==
    { sp \in StoredPatterns(t) : Matches(split(q, sc), sp.pat) }

(***************************************************************************)
(* C13.  On a trie holding only literal patterns, find on a query with the *)
(* single wildcard or a trailing multi wildcard returns, as a set, exactly *)
(* the values of the stored patterns the query matches, the single         *)
(* wildcard standing for exactly one token and the trailing multi wildcard *)
(* for one or more trailing tokens; each matched value set adds each of    *)
(* its values once.                                                        *)
(* The code: the closing loop of find takes the value_set of every         *)
(* frontier node before descending, so find(a.>) also returns what is      *)
(* stored exactly at a.                                                    *)
(***************************************************************************)
C13_WildcardQueryExact ==
    (op = "find" /\ key \in WildcardQueries /\ LiteralOnly(root))
      => /\ IsOk(ret)
         /\ FindSet(root, key) = { sp.v : sp \in MatchedBy(root, key) }
         /\ \A v \in V :
               CopiesIn(v, ret.vals)
                 = Cardinality({ sp \in MatchedBy(root, key) : sp.v = v })

(***************************************************************************)
(* C14.  exist agrees with find on every subject in every reachable trie:  *)
(* exist is Err(e) exactly when find is Err(e), with the same error, and   *)
(* otherwise exist is Ok(true) exactly when find yields at least one       *)
(* value; exist leaves the trie as it was.                                 *)
(* The code: exist returns from inside its loop, true at the first         *)
(* non-empty multi wildcard set and false at an empty frontier, before the *)
(* remaining tokens are checked; find checks every token.                  *)
(***************************************************************************)
C14_ExistAgreesWithFind ==
    [][ op' = "exist"
          => LET f == find(root, key')
             IN  /\ root' = root
                 /\ ret'.err = f.err
                 /\ IsOk(f) => (ret' = OkBool(f.vals # EmptyBag)) ]_vars

=============================================================================
